---- MODULE Spec2Model ----
(***************************************************************************)
(* Model of fbgemm_gpu/src/sparse_ops_gpu.cpp: the three autograd          *)
(* operators PackSegments, LookupFunctionBatchedUnaryEmbeddingOp and       *)
(* IndexSelectDim0GPUOp, their AutogradContext, and the wrappers           *)
(* pack_segments_cuda, lookup_batched_unary_embedding_function and         *)
(* index_select_dim0_gpu.                                                  *)
(*                                                                         *)
(* Tensors are one-dimensional sequences of integers (rows are scalars)    *)
(* tagged with a device; a packed tensor is a sequence of rows.  Index     *)
(* values and orig_indices are 0-based as in the code; sequences are       *)
(* 1-based, hence the +1 at each access.                                   *)
(***************************************************************************)
EXTENDS Integers, Sequences, FiniteSets, TLC

\* ------------------------------------------------------------------ bounds
MaxLen == 3
NumRows == 3
MaxSegs == 3
MaxSegLen == 3
MaxMaxLength == 3
MaxArity == 3

VARIABLES ctx, phase, op, args, ret

vars == <<ctx, phase, op, args, ret>>

\* ----------------------------------------------------------------- tensors
Devices == {"cpu", "cuda:0", "cuda:1"}

Tensor(dev, data) == [defined |-> TRUE, dev |-> dev, data |-> data]

\* A default-constructed Tensor(): the "no gradient" marker.
Undef == [defined |-> FALSE, dev |-> "none", data |-> <<>>]

RECURSIVE SumSeq(_)
SumSeq(s) == IF s = <<>> THEN 0 ELSE s[1] + SumSeq(Tail(s))

\* Sum of f[i] over the finite set S of indices.
RECURSIVE SumOver(_, _)
SumOver(f, S) ==
  IF S = {} THEN 0
  ELSE LET i == CHOOSE x \in S : TRUE IN f[i] + SumOver(f, S \ {i})

RECURSIVE Pow2(_)
Pow2(n) == IF n = 0 THEN 1 ELSE 2 * Pow2(n - 1)

\* ---------------------------------------------------- 64-bit / 32-bit ints
\* An int64_t is four 16-bit limbs, least significant first; an int is two.
Limb == 2 ^ 16

I64(n) == <<n % Limb, (n \div Limb) % Limb, 0, 0>>

\* int64_t -> int: the conversion keeps the low 32 bits.
NarrowToInt(v) == <<v[1], v[2]>>

\* int -> int64_t: sign extension.
IntToInt64(i) ==
  LET s == IF i[2] >= Limb \div 2 THEN Limb - 1 ELSE 0
  IN <<i[1], i[2], s, s>>

\* c10::optional<T>: <<>> is nullopt, <<x>> holds x.
nullopt == <<>>

Some(x) == <<x>>

\* ----------------------------------------------------------------- context
\* IValue stored in saved_data.
IValue(tag, v) == [tag |-> tag, v |-> v]

None == [tag |-> "None", v |-> 0]

EmptyCtx == [saved_variables |-> <<>>, saved_data |-> [k \in {} |-> None]]

\* Handler-local state: the context plus the log of what the call has done.
Enter(c) == [ctx |-> c, events |-> <<>>]

Log(h, kind, name) == [h EXCEPT !.events = Append(@, <<kind, name>>)]

\* ctx->saved_data[key] = v
SaveData(h, key, v) ==
  Log([h EXCEPT !.ctx.saved_data = (key :> v) @@ @], "saved_data=", key)

\* ctx->save_for_backward({...})
SaveForBackward(h, list) ==
  Log([h EXCEPT !.ctx.saved_variables = list], "save_for_backward", "")

\* ctx->saved_data[key] as an rvalue: operator[] default-inserts a None
\* IValue when the key is absent.
ReadData(h, key) ==
  Log(IF key \in DOMAIN h.ctx.saved_data
        THEN h
        ELSE [h EXCEPT !.ctx.saved_data = (key :> None) @@ @],
      "saved_data[]", key)

\* ctx->get_saved_variables()
GetSavedVariables(h) == Log(h, "get_saved_variables", "")

Check(h, name) == Log(h, "check", name)

Kernel(h, name) == Log(h, "kernel", name)

Return(fn, h, value, kargs) ==
  [ctx |-> h.ctx,
   ret |-> [fn |-> fn, status |-> "ok", err |-> "", value |-> value,
            events |-> h.events, kargs |-> kargs]]

Throw(fn, h, err) ==
  [ctx |-> h.ctx,
   ret |-> [fn |-> fn, status |-> "fail", err |-> err, value |-> <<>>,
            events |-> h.events, kargs |-> <<>>]]

\* ------------------------------------------------------------ PackSegments
\* Rows of the input before segment s.
Offset(lengths, s) == SumSeq(SubSeq(lengths, 1, s - 1))

pack_segments_forward_cuda(t_in, lengths, max_length) ==
  Tensor(t_in.dev,
         [s \in 1..Len(lengths.data) |->
            [p \in 1..max_length |->
               IF p <= lengths.data[s] /\ Offset(lengths.data, s) + p <= Len(t_in.data)
                 THEN t_in.data[Offset(lengths.data, s) + p]
                 ELSE 0]])

pack_segments_backward_cuda(grad, lengths, total_length, max_length) ==
  Tensor(grad.dev,
         [r \in 1..total_length |->
            LET segs == {s \in 1..Len(lengths.data) :
                           /\ Offset(lengths.data, s) < r
                           /\ r <= Offset(lengths.data, s) + lengths.data[s]}
            IN IF segs = {} THEN 0
               ELSE LET s == CHOOSE x \in segs : TRUE
                        p == r - Offset(lengths.data, s)
                    IN IF /\ p <= max_length
                          /\ s <= Len(grad.data)
                          /\ p <= Len(grad.data[s])
                         THEN grad.data[s][p]
                         ELSE 0])

\* forward with total_length saved from max_length.
PackSegments_forward_mut(c, t_in, lengths, max_length) ==
  LET h1 == SaveData(Enter(c), "max_length", IValue("Int", max_length))
      h2 == SaveData(h1, "total_length", IValue("Int", max_length))
      h3 == SaveForBackward(h2, <<lengths>>)
      h4 == Kernel(h3, "pack_segments_forward_cuda")
      res == pack_segments_forward_cuda(t_in, lengths, max_length)
  IN Return("PackSegments::forward", h4, <<res>>, <<>>)

PackSegments_forward(c, t_in, lengths, max_length) ==
  LET total_length == Len(t_in.data)
      h1 == SaveData(Enter(c), "max_length", IValue("Int", max_length))
      h2 == SaveData(h1, "total_length", IValue("Int", total_length))
      h3 == SaveForBackward(h2, <<lengths>>)
      h4 == Kernel(h3, "pack_segments_forward_cuda")
      res == pack_segments_forward_cuda(t_in, lengths, max_length)
  IN Return("PackSegments::forward", h4, <<res>>, <<>>)

\* An arity check that admits a single gradient only.
PackSegmentsArityOk_mut(size) == size = 1

\* grad_output.size() == 2 or grad_output.size() == 1
PackSegmentsArityOk(size) == size = 2 \/ size = 1

\* grad_outputs.size() == 1
UnaryArityOk(size) == size = 1

IndexSelectArityOk(size) == size = 1

\* backward reading the scalar under a misspelt key.
PackSegments_backward_mut(c, grad_output) ==
  LET fn == "PackSegments::backward"
      h1 == Check(Enter(c), "TORCH_CHECK")
  IN IF ~PackSegmentsArityOk(Len(grad_output))
       THEN Throw(fn, h1, "InvalidArgument")
       ELSE
         LET h2 == ReadData(h1, "max_len")
             h3 == ReadData(h2, "total_length")
         IN IF h3.ctx.saved_data["max_len"].tag # "Int"
               \/ h3.ctx.saved_data["total_length"].tag # "Int"
              THEN Throw(fn, h3, "InternalError")
              ELSE
                LET h5 == Kernel(GetSavedVariables(h3), "pack_segments_backward_cuda")
                    g == pack_segments_backward_cuda(
                           grad_output[1], h5.ctx.saved_variables[1],
                           h3.ctx.saved_data["total_length"].v,
                           h3.ctx.saved_data["max_len"].v)
                IN Return(fn, h5, <<g, Undef, Undef, Undef, Undef>>, <<>>)

PackSegments_backward(c, grad_output) ==
  LET fn == "PackSegments::backward"
      h1 == Check(Enter(c), "TORCH_CHECK")
  IN IF ~PackSegmentsArityOk(Len(grad_output))
       THEN Throw(fn, h1, "InvalidArgument")
       ELSE
         LET grad == grad_output[1]
             h2 == ReadData(h1, "max_length")
             h3 == ReadData(h2, "total_length")
         IN IF h3.ctx.saved_data["max_length"].tag # "Int"
               \/ h3.ctx.saved_data["total_length"].tag # "Int"
              THEN Throw(fn, h3, "InternalError")
              ELSE
                LET max_length == h3.ctx.saved_data["max_length"].v
                    total_length == h3.ctx.saved_data["total_length"].v
                    h4 == GetSavedVariables(h3)
                    lengths == h4.ctx.saved_variables[1]
                    h5 == Kernel(h4, "pack_segments_backward_cuda")
                    g == pack_segments_backward_cuda(
                           grad, lengths, total_length, max_length)
                IN Return(fn, h5, <<g, Undef, Undef, Undef, Undef>>, <<>>)

\* --------------------------------- LookupFunctionBatchedUnaryEmbeddingOp
\* T tables, B samples: table_offsets has T+1 entries, offsets T*B+1.
NumTables(table_offsets) == Len(table_offsets.data) - 1

BatchSize(table_offsets, offsets) ==
  (Len(offsets.data) - 1) \div NumTables(table_offsets)

\* Table of the (0-based) bag n = t*B + b.
TableOf(table_offsets, offsets, n) == n \div BatchSize(table_offsets, offsets)

\* Weight position (1-based) addressed by entry l (1-based) of indices, which
\* belongs to bag n.
WeightPos(table_offsets, offsets, indices, n, l) ==
  table_offsets.data[TableOf(table_offsets, offsets, n) + 1] + indices.data[l] + 1

batched_unary_embeddings_forward_cuda(weight, table_offsets, offsets, indices) ==
  Tensor(weight.dev,
         [m \in 1..(Len(offsets.data) - 1) |->
            LET Ls == (offsets.data[m] + 1)..offsets.data[m + 1]
                w == [l \in Ls |->
                        weight.data[WeightPos(table_offsets, offsets, indices, m - 1, l)]]
            IN SumOver(w, Ls)])

batched_unary_embeddings_backward_cuda(grad, weight, table_offsets, offsets, indices) ==
  Tensor(weight.dev,
         [k \in 1..Len(weight.data) |->
            LET hits == {<<m, l>> \in (1..(Len(offsets.data) - 1)) \X (1..Len(indices.data)) :
                           /\ offsets.data[m] < l
                           /\ l <= offsets.data[m + 1]
                           /\ WeightPos(table_offsets, offsets, indices, m - 1, l) = k}
                g == [x \in hits |-> IF x[1] <= Len(grad.data) THEN grad.data[x[1]] ELSE 0]
            IN SumOver(g, hits)])

LookupFunctionBatchedUnaryEmbeddingOp_forward(c, weight, table_offsets, offsets, indices) ==
  LET h1 == SaveForBackward(Enter(c), <<weight, table_offsets, offsets, indices>>)
      h2 == Kernel(h1, "batched_unary_embeddings_forward_cuda")
      output == batched_unary_embeddings_forward_cuda(
                  weight, table_offsets, offsets, indices)
  IN Return("LookupFunctionBatchedUnaryEmbeddingOp::forward", h2, <<output>>, <<>>)

\* backward with the kernel launched ahead of the arity check.
LookupFunctionBatchedUnaryEmbeddingOp_backward_mut(c, grad_outputs) ==
  LET fn == "LookupFunctionBatchedUnaryEmbeddingOp::backward"
      h1 == GetSavedVariables(Enter(c))
      saved == h1.ctx.saved_variables
      h2 == Kernel(h1, "batched_unary_embeddings_backward_cuda")
      h3 == Check(h2, "TORCH_CHECK")
  IN IF ~UnaryArityOk(Len(grad_outputs))
       THEN Throw(fn, h3, "InvalidArgument")
       ELSE
         LET grad_weight == batched_unary_embeddings_backward_cuda(
                              grad_outputs[1], saved[1], saved[2], saved[3], saved[4])
         IN Return(fn, h3, <<grad_weight, Undef, Undef, Undef>>, <<>>)

LookupFunctionBatchedUnaryEmbeddingOp_backward(c, grad_outputs) ==
  LET fn == "LookupFunctionBatchedUnaryEmbeddingOp::backward"
      h1 == GetSavedVariables(Enter(c))
      saved == h1.ctx.saved_variables
      weight == saved[1]
      table_offsets == saved[2]
      offsets == saved[3]
      indices == saved[4]
      h2 == Check(h1, "TORCH_CHECK")
  IN IF ~UnaryArityOk(Len(grad_outputs))
       THEN Throw(fn, h2, "InvalidArgument")
       ELSE
         LET h3 == Kernel(h2, "batched_unary_embeddings_backward_cuda")
             grad_weight == batched_unary_embeddings_backward_cuda(
                              grad_outputs[1], weight, table_offsets, offsets, indices)
         IN Return(fn, h3, <<grad_weight, Undef, Undef, Undef>>, <<>>)

\* ---------------------------------------------------- IndexSelectDim0GPUOp
TENSOR_ON_CUDA_GPU(x) == x.defined /\ x.dev # "cpu"

TENSORS_ON_SAME_DEVICE(x, y) == x.dev = y.dev

\* The outcomes indices.sort() may have: every permutation (0-based original
\* positions) that puts the values in ascending order; ties in any order.
SortPerms(data) ==
  {p \in [1..Len(data) -> 0..(Len(data) - 1)] :
     /\ \A i, j \in 1..Len(data) : i # j => p[i] # p[j]
     /\ \A j \in 1..(Len(data) - 1) : data[p[j] + 1] <= data[p[j + 1] + 1]}

\* std::tie(sorted_indices, orig_indices) = indices.sort(), with outcome perm.
SortedIndices(indices, perm) ==
  Tensor(indices.dev, [j \in 1..Len(perm) |-> indices.data[perm[j] + 1]])

OrigIndices(indices, perm) == Tensor(indices.dev, perm)

index_select_cuda(input, indices, orig_indices, indices_sorted) ==
  Tensor(input.dev,
         [i \in 1..Len(indices.data) |->
            LET js == IF indices_sorted
                        THEN {j \in 1..Len(orig_indices.data) : orig_indices.data[j] = i - 1}
                        ELSE {i}
            IN IF js = {} THEN 0
               ELSE LET j == CHOOSE x \in js : TRUE
                    IN IF indices.data[j] + 1 \in 1..Len(input.data)
                         THEN input.data[indices.data[j] + 1]
                         ELSE 0])

index_add_with_unique_indices_cuda(grad_output, sorted_indices, orig_indices, input_shape, range_start, range_length) ==
  Tensor(grad_output.dev,
         [k \in 1..input_shape[1] |->
            LET js == {j \in 1..Len(sorted_indices.data) :
                         /\ sorted_indices.data[j] = k - 1
                         /\ j <= Len(orig_indices.data)
                         /\ orig_indices.data[j] + 1 \in 1..Len(grad_output.data)}
                g == [j \in js |-> grad_output.data[orig_indices.data[j] + 1]]
            IN SumOver(g, js)])

\* The sorted pair saved in the wrong order.
SavedForBackward_mut(skip_indices_sorting_fwd, indices, sorted_indices, orig_indices) ==
  IF skip_indices_sorting_fwd
    THEN <<indices>>
    ELSE <<orig_indices, sorted_indices>>

\* The tensors forward saves for backward.
SavedForBackward(skip_indices_sorting_fwd, indices, sorted_indices, orig_indices) ==
  IF skip_indices_sorting_fwd
    THEN <<indices>>
    ELSE <<sorted_indices, orig_indices>>

\* The raw indices handed to the kernel on both paths.
GatherIndices_mut(skip_indices_sorting_fwd, indices, sorted_indices) == indices

\* The index argument forward hands to index_select_cuda.
GatherIndices(skip_indices_sorting_fwd, indices, sorted_indices) ==
  IF skip_indices_sorting_fwd THEN indices ELSE sorted_indices

\* The entry checks of forward without TENSORS_ON_SAME_DEVICE.
ForwardChecks_mut(h, input, indices) ==
  LET h1 == Check(h, "TENSOR_ON_CUDA_GPU(input)")
      h2 == Check(h1, "TENSOR_ON_CUDA_GPU(indices)")
  IN IF ~TENSOR_ON_CUDA_GPU(input) THEN [h |-> h1, err |-> "NotOnCudaGpu"]
     ELSE IF ~TENSOR_ON_CUDA_GPU(indices) THEN [h |-> h2, err |-> "NotOnCudaGpu"]
     ELSE [h |-> h2, err |-> ""]

\* The entry checks of forward, in order; err is "" when all pass.
ForwardChecks(h, input, indices) ==
  LET h1 == Check(h, "TENSOR_ON_CUDA_GPU(input)")
      h2 == Check(h1, "TENSOR_ON_CUDA_GPU(indices)")
      h3 == Check(h2, "TENSORS_ON_SAME_DEVICE(input, indices)")
  IN IF ~TENSOR_ON_CUDA_GPU(input) THEN [h |-> h1, err |-> "NotOnCudaGpu"]
     ELSE IF ~TENSOR_ON_CUDA_GPU(indices) THEN [h |-> h2, err |-> "NotOnCudaGpu"]
     ELSE IF ~TENSORS_ON_SAME_DEVICE(input, indices)
       THEN [h |-> h3, err |-> "DeviceMismatch"]
     ELSE [h |-> h3, err |-> ""]

IndexSelectDim0GPUOp_forward(c, input, indices, consecutive_range_start, consecutive_range_length, skip_indices_sorting_fwd, perm) ==
  LET fn == "IndexSelectDim0GPUOp::forward"
      pre == ForwardChecks(Enter(c), input, indices)
      h3 == pre.h
  IN IF pre.err # "" THEN Throw(fn, pre.h, pre.err)
     ELSE
       LET sorted_indices == IF skip_indices_sorting_fwd THEN Undef
                             ELSE SortedIndices(indices, perm)
           orig_indices == IF skip_indices_sorting_fwd THEN Undef
                           ELSE OrigIndices(indices, perm)
           h4 == SaveForBackward(
                   IF skip_indices_sorting_fwd THEN h3 ELSE Log(h3, "sort", "indices"),
                   SavedForBackward(skip_indices_sorting_fwd, indices,
                                    sorted_indices, orig_indices))
           h5 == SaveData(h4, "input_shape", IValue("IntList", <<Len(input.data)>>))
           h6 == SaveData(h5, "consecutive_range_start",
                          IValue("Int", IntToInt64(consecutive_range_start)))
           h7 == SaveData(h6, "consecutive_range_length",
                          IValue("Int", IntToInt64(consecutive_range_length)))
           h8 == SaveData(h7, "skip_indices_sorting_fwd",
                          IValue("Bool", skip_indices_sorting_fwd))
           h9 == Kernel(h8, "index_select_cuda")
           out == index_select_cuda(
                    input,
                    GatherIndices(skip_indices_sorting_fwd, indices, sorted_indices),
                    orig_indices,
                    ~skip_indices_sorting_fwd)
       IN Return(fn, h9, <<out>>, <<>>)

IndexSelectDim0GPUOp_backward(c, grad_outputs, perm) ==
  LET fn == "IndexSelectDim0GPUOp::backward"
      h1 == Check(Enter(c), "TORCH_CHECK")
  IN IF ~IndexSelectArityOk(Len(grad_outputs)) THEN Throw(fn, h1, "InvalidArgument")
     ELSE
       LET h2 == Check(h1, "TENSOR_ON_CUDA_GPU(grad_outputs[0])")
       IN IF ~TENSOR_ON_CUDA_GPU(grad_outputs[1]) THEN Throw(fn, h2, "NotOnCudaGpu")
          ELSE
            LET h3 == ReadData(h2, "skip_indices_sorting_fwd")
            IN IF h3.ctx.saved_data["skip_indices_sorting_fwd"].tag # "Bool"
                 THEN Throw(fn, h3, "InternalError")
                 ELSE
                   LET skip_indices_sorting_fwd ==
                         h3.ctx.saved_data["skip_indices_sorting_fwd"].v
                       h4 == GetSavedVariables(h3)
                       saved == h4.ctx.saved_variables
                       h5 == IF skip_indices_sorting_fwd
                               THEN Log(h4, "sort", "indices") ELSE h4
                       sorted_indices == IF skip_indices_sorting_fwd
                                           THEN SortedIndices(saved[1], perm)
                                           ELSE saved[1]
                       orig_indices == IF skip_indices_sorting_fwd
                                         THEN OrigIndices(saved[1], perm)
                                         ELSE saved[2]
                       h6 == Check(h5, "TENSOR_ON_CUDA_GPU(sorted_indices)")
                       h7 == Check(h6, "TENSOR_ON_CUDA_GPU(orig_indices)")
                       grad_output == grad_outputs[1]
                       h8 == Check(h7, "TENSORS_ON_SAME_DEVICE(grad_output, sorted_indices)")
                   IN IF ~TENSOR_ON_CUDA_GPU(sorted_indices)
                        THEN Throw(fn, h6, "NotOnCudaGpu")
                      ELSE IF ~TENSOR_ON_CUDA_GPU(orig_indices)
                        THEN Throw(fn, h7, "NotOnCudaGpu")
                      ELSE IF ~TENSORS_ON_SAME_DEVICE(grad_output, sorted_indices)
                        THEN Throw(fn, h8, "DeviceMismatch")
                      ELSE
                        LET h9 == ReadData(h8, "input_shape")
                            h10 == ReadData(h9, "consecutive_range_start")
                            h11 == ReadData(h10, "consecutive_range_length")
                            sd == h11.ctx.saved_data
                        IN IF \/ sd["input_shape"].tag # "IntList"
                              \/ sd["consecutive_range_start"].tag # "Int"
                              \/ sd["consecutive_range_length"].tag # "Int"
                             THEN Throw(fn, h11, "InternalError")
                             ELSE
                               LET input_shape == sd["input_shape"].v
                                   consecutive_range_start ==
                                     NarrowToInt(sd["consecutive_range_start"].v)
                                   consecutive_range_length ==
                                     NarrowToInt(sd["consecutive_range_length"].v)
                                   h12 == Kernel(h11, "index_add_with_unique_indices_cuda")
                                   g == index_add_with_unique_indices_cuda(
                                          grad_output, sorted_indices, orig_indices,
                                          input_shape, consecutive_range_start,
                                          consecutive_range_length)
                               IN Return(fn, h12,
                                         <<g, Undef, Undef, Undef, Undef>>,
                                         <<consecutive_range_start,
                                           consecutive_range_length>>)

has_value(o) == Len(o) = 1

\* The flag index_select_dim0_gpu hands to IndexSelectDim0GPUOp::apply.
ForwardSkipFlag(skip_indices_sorting_fwd, inference_mode) ==
  LET user_skip_indices_sorting_fwd ==
        IF has_value(skip_indices_sorting_fwd) THEN skip_indices_sorting_fwd[1] ELSE FALSE
  IN user_skip_indices_sorting_fwd /\ ~inference_mode

index_select_dim0_gpu(c, input, indices, consecutive_range_start, consecutive_range_length, skip_indices_sorting_fwd, inference_mode, perm) ==
  IndexSelectDim0GPUOp_forward(
    c, input, indices,
    NarrowToInt(IF has_value(consecutive_range_start)
                  THEN consecutive_range_start[1] ELSE I64(0)),
    NarrowToInt(IF has_value(consecutive_range_length)
                  THEN consecutive_range_length[1] ELSE I64(0)),
    ForwardSkipFlag(skip_indices_sorting_fwd, inference_mode),
    perm)

\* ------------------------------------------------------------------ inputs
NoArgs ==
  [input |-> Undef, indices |-> Undef, lengths |-> Undef, max_length |-> 0,
   table_offsets |-> Undef, offsets |-> Undef,
   range_start |-> nullopt, range_length |-> nullopt, skip |-> nullopt,
   inference |-> FALSE, grads |-> <<>>]

SeqsUpTo(S, n) == UNION {[1..k -> S] : k \in 0..n}

\* lengths are non-negative and sum to the input's leading dimension.
LengthsInputs == SeqsUpTo(0..MaxSegLen, MaxSegs)

\* Gradient patterns of a given shape: all ones, or a distinct value per cell.
PackedGrads(nseg, maxlen) ==
  { [s \in 1..nseg |-> [p \in 1..maxlen |-> 1]],
    [s \in 1..nseg |-> [p \in 1..maxlen |-> 10 * s + p]] }

\* Gradient lists of 0..MaxArity entries: entry 0 from first, the others from
\* others.
GradLists(first, others) ==
  {<<>>} \cup {<<g>> : g \in first}
         \cup {<<g>> \o [k \in 1..(n - 1) |-> o] :
                  g \in first, o \in others, n \in 2..MaxArity}

\* Gradients of a flat tensor of n rows: all ones, or a distinct power of two
\* per row (so a sum tells which rows went into it).
FlatGrads(n) == { [i \in 1..n |-> 1], [i \in 1..n |-> Pow2(i - 1)] }

\* The gradients handed to IndexSelectDim0GPUOp::backward: on the GPU of the
\* indices, on another GPU, or on the CPU.
IndexGrads(n) ==
  {Tensor("cuda:0", g) : g \in FlatGrads(n)}
    \cup {Tensor(d, [i \in 1..n |-> 1]) : d \in Devices \ {"cuda:0"}}

IndexInputs == SeqsUpTo(0..(NumRows - 1), MaxLen)

\* (device of input, device of indices)
DevicePairs ==
  { <<"cuda:0", "cuda:0">>, <<"cpu", "cuda:0">>, <<"cuda:0", "cpu">>,
    <<"cuda:0", "cuda:1">> }

\* (consecutive_range_start, consecutive_range_length) as the caller gives
\* them: absent, small, INT_MAX, 2^31, 2^32 and -1.
HintPairs ==
  { <<nullopt, Some(I64(4))>>,
    <<Some(I64(1)), nullopt>>,
    <<Some(<<Limb - 1, Limb \div 2 - 1, 0, 0>>), Some(<<Limb - 1, Limb - 1, Limb - 1, Limb - 1>>)>>,
    <<Some(<<0, Limb \div 2, 0, 0>>), Some(<<0, 0, 1, 0>>)>> }

SkipInputs == {nullopt, Some(TRUE), Some(FALSE)}

\* One weight vector of three rows in two tables (rows 0..1 and row 2), two
\* samples, one index per bag.
UnaryIndexInputs == { <<i, j, 0, 0>> : i, j \in 0..1 }

\* ----------------------------------------------------------------- actions
NoRet ==
  [fn |-> "none", status |-> "ok", err |-> "", value |-> <<>>,
   events |-> <<>>, kargs |-> <<>>]

Init ==
  /\ ctx = EmptyCtx
  /\ phase = "init"
  /\ op = "none"
  /\ args = NoArgs
  /\ ret = NoRet

\* The engine drops the node and its context once the forward/backward pair
\* is over (or forward threw, or no backward will come).
Release ==
  /\ phase # "init"
  /\ ctx' = EmptyCtx
  /\ phase' = "init"
  /\ op' = "none"
  /\ args' = NoArgs
  /\ ret' = NoRet

\* pack_segments_cuda: PackSegments::apply builds a fresh context and runs
\* forward.
pack_segments_cuda ==
  /\ phase = "init"
  /\ \E lens \in LengthsInputs, max_length \in 1..MaxMaxLength :
       LET t_in == Tensor("cuda:0", [r \in 1..SumSeq(lens) |-> 100 + r])
           lengths == Tensor("cuda:0", lens)
           r == PackSegments_forward(EmptyCtx, t_in, lengths, max_length)
       IN /\ ctx' = r.ctx
          /\ ret' = r.ret
          /\ op' = "PackSegments"
          /\ phase' = "forwarded"
          /\ args' = [NoArgs EXCEPT !.input = t_in, !.lengths = lengths,
                                    !.max_length = max_length]

\* The engine runs backward at most once, after forward has returned.
PackSegmentsBackward ==
  /\ phase = "forwarded"
  /\ op = "PackSegments"
  /\ \E gl \in GradLists(
         {Tensor("cuda:0", d) :
            d \in PackedGrads(Len(args.lengths.data), args.max_length)},
         {Tensor("cuda:0", <<>>), Tensor("cuda:0", <<<<7>>>>)}) :
       LET r == PackSegments_backward(ctx, gl)
       IN /\ ctx' = r.ctx
          /\ ret' = r.ret
          /\ args' = [args EXCEPT !.grads = gl]
          /\ phase' = "done"
          /\ UNCHANGED op

lookup_batched_unary_embedding_function ==
  /\ phase = "init"
  /\ \E idx \in UnaryIndexInputs :
       LET weight == Tensor("cuda:0", <<3, 5, 7>>)
           table_offsets == Tensor("cuda:0", <<0, 2, 3>>)
           offsets == Tensor("cuda:0", <<0, 1, 2, 3, 4>>)
           indices == Tensor("cuda:0", idx)
           r == LookupFunctionBatchedUnaryEmbeddingOp_forward(
                  EmptyCtx, weight, table_offsets, offsets, indices)
       IN /\ ctx' = r.ctx
          /\ ret' = r.ret
          /\ op' = "LookupFunctionBatchedUnaryEmbeddingOp"
          /\ phase' = "forwarded"
          /\ args' = [NoArgs EXCEPT !.input = weight, !.indices = indices,
                                    !.table_offsets = table_offsets,
                                    !.offsets = offsets]

LookupFunctionBatchedUnaryEmbeddingOpBackward ==
  /\ phase = "forwarded"
  /\ op = "LookupFunctionBatchedUnaryEmbeddingOp"
  /\ \E gl \in GradLists(
         {Tensor("cuda:0", d) : d \in FlatGrads(Len(args.offsets.data) - 1)},
         {Tensor("cuda:0", <<>>)}) :
       LET r == LookupFunctionBatchedUnaryEmbeddingOp_backward(ctx, gl)
       IN /\ ctx' = r.ctx
          /\ ret' = r.ret
          /\ args' = [args EXCEPT !.grads = gl]
          /\ phase' = "done"
          /\ UNCHANGED op

\* index_select_dim0_gpu called with c10::InferenceMode on or off.  No graph
\* is recorded in inference mode, so no backward follows; none follows a
\* forward that threw either.
IndexSelectDim0 ==
  /\ phase = "init"
  /\ \E idx \in IndexInputs, devs \in DevicePairs, hints \in HintPairs,
        skip \in SkipInputs, inference_mode \in BOOLEAN :
       \E perm \in SortPerms(idx) :
         LET input == Tensor(devs[1], [k \in 1..NumRows |-> 10 * k])
             indices == Tensor(devs[2], idx)
             r == index_select_dim0_gpu(EmptyCtx, input, indices, hints[1], hints[2],
                                        skip, inference_mode, perm)
         IN /\ ctx' = r.ctx
            /\ ret' = r.ret
            /\ op' = "IndexSelectDim0GPUOp"
            /\ phase' = IF r.ret.status = "ok" THEN "forwarded" ELSE "failed"
            /\ args' = [NoArgs EXCEPT !.input = input, !.indices = indices,
                                      !.range_start = hints[1],
                                      !.range_length = hints[2],
                                      !.skip = skip, !.inference = inference_mode]

\* The sort outcomes backward may see: it sorts only on the deferred path.
BackwardSortPerms(c) ==
  IF Len(c.saved_variables) = 1 THEN SortPerms(c.saved_variables[1].data) ELSE {<<>>}

IndexSelectDim0GPUOpBackward ==
  /\ phase = "forwarded"
  /\ op = "IndexSelectDim0GPUOp"
  /\ ~args.inference
  /\ \E gl \in GradLists(
         IndexGrads(Len(args.indices.data)),
         {Tensor("cuda:0", <<>>)}) :
       \E perm \in BackwardSortPerms(ctx) :
         LET r == IndexSelectDim0GPUOp_backward(ctx, gl, perm)
         IN /\ ctx' = r.ctx
            /\ ret' = r.ret
            /\ args' = [args EXCEPT !.grads = gl]
            /\ phase' = "done"
            /\ UNCHANGED op

Next ==
  \/ pack_segments_cuda
  \/ PackSegmentsBackward
  \/ lookup_batched_unary_embedding_function
  \/ LookupFunctionBatchedUnaryEmbeddingOpBackward
  \/ IndexSelectDim0
  \/ IndexSelectDim0GPUOpBackward
  \/ Release

Spec == Init /\ [][Next]_vars

\* ------------------------------------------------------------------ claims
PackBwd == "PackSegments::backward"

UnaryBwd == "LookupFunctionBatchedUnaryEmbeddingOp::backward"

IndexFwd == "IndexSelectDim0GPUOp::forward"

IndexBwd == "IndexSelectDim0GPUOp::backward"

\* A gradient list of n slots: slot 0 a defined tensor, the others undefined.
GradientTuple(value, n) ==
  /\ Len(value) = n
  /\ value[1].defined
  /\ \A i \in 2..Len(value) : ~value[i].defined

\* C1: every successful backward returns one slot per forward input (3 for
\* PackSegments, 4 for the batched unary embedding, 5 for index select),
\* slot 0 defined and every other slot undefined.
C1_GradientArity ==
  ret.status = "ok" =>
    /\ ret.fn = PackBwd => GradientTuple(ret.value, 3)
    /\ ret.fn = UnaryBwd => GradientTuple(ret.value, 4)
    /\ ret.fn = IndexBwd => GradientTuple(ret.value, 5)

\* Row i of the gather: input[indices[i]].
Gathered(input, indices) ==
  [i \in 1..Len(indices.data) |-> input.data[indices.data[i] + 1]]

\* C2: forward with and without the internal sort returns the same output,
\* and output row i is input[indices[i]] at every position i of the original
\* indices, whatever order the sort leaves ties in.
C2_SortTransparency ==
  (ret.fn = IndexFwd /\ ret.status = "ok") =>
    /\ ret.value[1].data = Gathered(args.input, args.indices)
    /\ \A perm \in SortPerms(args.indices.data) :
         LET sorting == IndexSelectDim0GPUOp_forward(
                          EmptyCtx, args.input, args.indices,
                          NarrowToInt(I64(0)), NarrowToInt(I64(0)), FALSE, perm)
             skipping == IndexSelectDim0GPUOp_forward(
                           EmptyCtx, args.input, args.indices,
                           NarrowToInt(I64(0)), NarrowToInt(I64(0)), TRUE, perm)
         IN /\ sorting.ret.value = skipping.ret.value
            /\ sorting.ret.value[1].data = Gathered(args.input, args.indices)

\* A forward that sorted unsorted indices holding a duplicate.
C2_Witness ==
  /\ ret.fn = IndexFwd
  /\ ret.status = "ok"
  /\ args.indices.data = <<2, 0, 2>>
  /\ \E i \in DOMAIN ret.events : ret.events[i] = <<"sort", "indices">>

\* Sum of grad_output rows at the positions of the original indices equal to k.
Accumulated(grad, indices, k) ==
  SumOver(grad.data, {i \in 1..Len(indices.data) : indices.data[i] = k})

\* C3: after forward then backward, slot 0 has the saved input shape and its
\* row k is the sum of grad_output[i] over the positions i with
\* indices[i] = k (zero when k is not selected), on the path where forward
\* saved the permutation and on the one where backward recomputes it.
C3_ScatterAdd ==
  (ret.fn = IndexBwd /\ ret.status = "ok") =>
    /\ <<Len(ret.value[1].data)>> = <<Len(args.input.data)>>
    /\ <<Len(ret.value[1].data)>> = ctx.saved_data["input_shape"].v
    /\ \A k \in 1..Len(args.input.data) :
         ret.value[1].data[k] = Accumulated(args.grads[1], args.indices, k - 1)

\* The deferred-sort path with indices [2, 0, 2] and gradient [1, 2, 4].
C3_Witness ==
  /\ ret.fn = IndexBwd
  /\ ret.status = "ok"
  /\ ctx.saved_data["skip_indices_sorting_fwd"].v = TRUE
  /\ args.indices.data = <<2, 0, 2>>
  /\ args.grads[1].data = <<1, 2, 4>>
  /\ ret.value[1].data = <<2, 0, 5>>

\* The ragged gradient: row p of segment s is grad[s][p], or zero once p
\* passes max_length.
Unpadded(grad, lengths, max_length, s, p) ==
  IF p <= max_length THEN grad.data[s][p] ELSE 0

UnpaddedOk(g, grad, lengths, max_length) ==
  \A s \in 1..Len(lengths.data) : \A p \in 1..lengths.data[s] :
    g.data[Offset(lengths.data, s) + p] = Unpadded(grad, lengths, max_length, s, p)

\* C4: PackSegments::backward is rejected with an invalid-argument error
\* exactly when it is given neither 1 nor 2 gradients, and with 2 it uses
\* entry 0 only; the batched unary embedding's backward is rejected exactly
\* when it is not given 1 gradient; a rejected call returns no gradient.
C4_ArityCheck ==
  /\ ret.fn = PackBwd =>
       /\ ret.status = "fail" <=> Len(args.grads) \notin {1, 2}
       /\ ret.status = "fail" => ret.err = "InvalidArgument" /\ ret.value = <<>>
       /\ ret.status = "ok" =>
            UnpaddedOk(ret.value[1], args.grads[1], args.lengths, args.max_length)
  /\ ret.fn = UnaryBwd =>
       /\ ret.status = "fail" <=> Len(args.grads) # 1
       /\ ret.status = "fail" => ret.err = "InvalidArgument" /\ ret.value = <<>>

\* PackSegments::backward accepting two gradients.
C4_Witness ==
  /\ ret.fn = PackBwd
  /\ Len(args.grads) = 2
  /\ ret.status = "ok"
  /\ Len(ret.value[1].data) > 0

\* C5: a call that ends in a failure has invoked no numeric kernel before
\* failing and yields no output or gradient.
C5_NoKernelBeforeFailure ==
  ret.status = "fail" =>
    /\ \A i \in DOMAIN ret.events : ret.events[i][1] # "kernel"
    /\ ret.value = <<>>

\* A backward that failed its last check, after the deferred sort.
C5_Witness ==
  /\ ret.fn = IndexBwd
  /\ ret.status = "fail"
  /\ ret.err = "DeviceMismatch"
  /\ \E i \in DOMAIN ret.events : ret.events[i] = <<"sort", "indices">>

\* The tensors backward compares: grad_output and the (saved or recomputed)
\* sorted indices, which live on the device of the indices given to forward.
BackwardDevicesDiffer ==
  /\ ret.fn = IndexBwd
  /\ Len(args.grads) = 1
  /\ args.grads[1].dev # args.indices.dev

ForwardDevicesDiffer ==
  /\ ret.fn = IndexFwd
  /\ args.input.dev # args.indices.dev

\* C6 as stated: whenever the cooperating tensors are on different devices,
\* forward (before saving anything) and backward fail with the
\* device-mismatch error.
C6_DeviceMismatchAsStated ==
  /\ ForwardDevicesDiffer =>
       ret.status = "fail" /\ ret.err = "DeviceMismatch" /\ ctx = EmptyCtx
  /\ BackwardDevicesDiffer =>
       ret.status = "fail" /\ ret.err = "DeviceMismatch"

\* C6 amended: whenever the cooperating tensors are on different devices the
\* call fails, forward before saving anything: with the device-mismatch
\* error when both tensors are on (different) GPUs, and with the
\* tensor-not-on-GPU error of the earlier check when one of them is not on a
\* GPU.
C6_DeviceErrors ==
  /\ ForwardDevicesDiffer =>
       /\ ret.status = "fail"
       /\ ctx = EmptyCtx
       /\ ret.err = IF args.input.dev = "cpu" \/ args.indices.dev = "cpu"
                      THEN "NotOnCudaGpu" ELSE "DeviceMismatch"
  /\ BackwardDevicesDiffer =>
       /\ ret.status = "fail"
       /\ ret.err = IF args.grads[1].dev = "cpu"
                      THEN "NotOnCudaGpu" ELSE "DeviceMismatch"

\* Forward given an input and indices on two different GPUs.
C6_Witness ==
  /\ ForwardDevicesDiffer
  /\ args.input.dev = "cuda:0"
  /\ args.indices.dev = "cuda:1"
  /\ ret.err = "DeviceMismatch"

\* No scalar key is written twice by the call.
WritesOnce(events) ==
  \A i, j \in DOMAIN events :
    (i # j /\ events[i][1] = "saved_data=") => events[i] # events[j]

\* C7: a call writes each scalar key at most once, and a backward call,
\* succeeding or failing, leaves the saved tensors and the scalar map (its
\* key set included) as forward left them.
C7_ContextFrame ==
  [][ /\ WritesOnce(ret'.events)
      /\ (phase = "forwarded" /\ phase' = "done") => ctx' = ctx ]_vars

\* A backward that has run on a context holding scalars.
C7_Witness ==
  /\ phase = "done"
  /\ ret.fn = IndexBwd
  /\ ret.status = "ok"
  /\ DOMAIN ctx.saved_data =
       {"input_shape", "consecutive_range_start", "consecutive_range_length",
        "skip_indices_sorting_fwd"}

\* C8: forward then backward of PackSegments gives a gradient of
\* total_length rows whose row p of segment s is grad_output[s][p] for
\* p < max_length and zero for a truncated row; lengths [2, 3, 1] with
\* max_length 3 and an all-ones gradient give six rows of ones.
C8_Unpad ==
  (ret.fn = PackBwd /\ ret.status = "ok") =>
    /\ Len(ret.value[1].data) = Len(args.input.data)
    /\ Len(ret.value[1].data) = SumSeq(args.lengths.data)
    /\ UnpaddedOk(ret.value[1], args.grads[1], args.lengths, args.max_length)
    /\ ( /\ args.lengths.data = <<2, 3, 1>>
         /\ args.max_length = 3
         /\ \A s \in 1..3 : \A p \in 1..3 : args.grads[1].data[s][p] = 1 )
       => ret.value[1].data = <<1, 1, 1, 1, 1, 1>>

\* The round trip of the example.
C8_Witness ==
  /\ ret.fn = PackBwd
  /\ ret.status = "ok"
  /\ args.lengths.data = <<2, 3, 1>>
  /\ args.max_length = 3
  /\ args.grads[1].data = [s \in 1..3 |-> [p \in 1..3 |-> 1]]
  /\ ret.value[1].data = <<1, 1, 1, 1, 1, 1>>

\* C9: in inference mode forward runs with skip_indices_sorting_fwd = true
\* (raw indices saved, no sort) whatever the caller passed; otherwise the
\* caller's flag is used, false when absent.
C9_InferenceSkipsSort ==
  (ret.fn = IndexFwd /\ ret.status = "ok") =>
    LET flag == ctx.saved_data["skip_indices_sorting_fwd"].v
    IN IF args.inference
         THEN /\ flag = TRUE
              /\ ctx.saved_variables = <<args.indices>>
              /\ \A i \in DOMAIN ret.events : ret.events[i][1] # "sort"
         ELSE flag = (IF has_value(args.skip) THEN args.skip[1] ELSE FALSE)

\* The caller's hint as a 64-bit value, 0 when absent.
Supplied(hint) == IF has_value(hint) THEN hint[1] ELSE I64(0)

\* C10: the range_start and range_length backward hands to
\* index_add_with_unique_indices equal the 64-bit values the caller supplied
\* (0 when absent).
C10_HintsPreserved ==
  (ret.fn = IndexBwd /\ ret.status = "ok") =>
    /\ IntToInt64(ret.kargs[1]) = Supplied(args.range_start)
    /\ IntToInt64(ret.kargs[2]) = Supplied(args.range_length)

====
